---------------------------- MODULE Spec2Model ----------------------------
(***************************************************************************)
(* CPT code search application: the search/filter/sort/pagination library, *)
(* the useSearch controller hook under React's render / effect cycle, the  *)
(* Search Box debounce timer, the Filter Panel, the Pagination Control and *)
(* the gated page composition.                                             *)
(*                                                                         *)
(* Strings are sequences of one-character strings, so that trimming,       *)
(* lower-casing, substring search and parseInt are computed and not        *)
(* assumed.  A JavaScript number-or-undefined value is a record            *)
(* [kind, n] with kind in {"undefined", "NaN", "number"}.                  *)
(***************************************************************************)
EXTENDS Integers, Sequences, FiniteSets, TLC

(***************************************************************************)
(* Bounds of the model.                                                    *)
(***************************************************************************)
\* Number of Code Records of the reference dataset that are loaded.
NumRecords == 5
\* How many times an event handler may invoke one controller function
\* before React re-renders (calls made from the same render's closure).
MaxCalls == 2
\* The count of draft changes of the Search Box since a timer last fired
\* stops growing here.
MaxBurst == 2
\* The largest page count the Pagination Control is rendered with.
MaxTotalPages == 20
\* The longest array a library function is called with directly.
MaxArrayLen == 3

(***************************************************************************)
(* JavaScript values                                                       *)
(***************************************************************************)
Undefined == [kind |-> "undefined", n |-> 0]
NaN == [kind |-> "NaN", n |-> 0]
Num(n) == [kind |-> "number", n |-> n]

Min(a, b) == IF a <= b THEN a ELSE b
Max(a, b) == IF a >= b THEN a ELSE b

\* Math.ceil(a / b) for a >= 0, b > 0
Ceil(a, b) == (a + b - 1) \div b

(***************************************************************************)
(* Strings                                                                 *)
(***************************************************************************)
UpperChars == <<"A", "B", "E", "G", "N", "X", "Y">>
LowerChars == <<"a", "b", "e", "g", "n", "x", "y">>
DigitChars == <<"0", "1", "2", "3", "4", "5", "6", "7", "8", "9">>
WhiteSpace == {" "}

\* The order of the characters under localeCompare: white space and
\* punctuation before digits before letters.
CollationOrder == <<" ", "-", ".">> \o DigitChars \o LowerChars

IndexOf(seq, c) == IF \E i \in DOMAIN seq : seq[i] = c
                   THEN CHOOSE i \in DOMAIN seq : seq[i] = c
                   ELSE 0

ToLowerChar(c) == IF IndexOf(UpperChars, c) > 0
                  THEN LowerChars[IndexOf(UpperChars, c)]
                  ELSE c

\* String.prototype.toLowerCase
ToLowerCase(s) == [i \in DOMAIN s |-> ToLowerChar(s[i])]

RECURSIVE TrimStart(_)
TrimStart(s) == IF s # <<>> /\ Head(s) \in WhiteSpace
                THEN TrimStart(Tail(s))
                ELSE s

RECURSIVE TrimEnd(_)
TrimEnd(s) == IF s # <<>> /\ s[Len(s)] \in WhiteSpace
              THEN TrimEnd(SubSeq(s, 1, Len(s) - 1))
              ELSE s

\* String.prototype.trim
Trim(s) == TrimEnd(TrimStart(s))

\* String.prototype.includes
Includes(s, sub) ==
    \E i \in 0..(Len(s) - Len(sub)) : SubSeq(s, i + 1, i + Len(sub)) = sub

\* String.prototype.localeCompare on two lower-cased strings: -1, 0 or 1
RECURSIVE LocaleCompare(_, _)
LocaleCompare(a, b) ==
    IF a = <<>> /\ b = <<>> THEN 0
    ELSE IF a = <<>> THEN -1
    ELSE IF b = <<>> THEN 1
    ELSE IF Head(a) = Head(b) THEN LocaleCompare(Tail(a), Tail(b))
    ELSE IF IndexOf(CollationOrder, Head(a)) < IndexOf(CollationOrder, Head(b))
         THEN -1
         ELSE 1

\* The value of the leading run of decimal digits of s, most significant
\* first, with acc the value read so far.
RECURSIVE ParseDigits(_, _)
ParseDigits(s, acc) ==
    IF s # <<>> /\ IndexOf(DigitChars, Head(s)) > 0
    THEN ParseDigits(Tail(s), 10 * acc + (IndexOf(DigitChars, Head(s)) - 1))
    ELSE acc

\* parseInt(s, 10): leading white space skipped, an optional sign, then the
\* longest run of digits; NaN when there is no digit.
ParseInt(s) ==
    LET t == TrimStart(s)
        neg == t # <<>> /\ Head(t) = "-"
        u == IF t # <<>> /\ Head(t) \in {"-", "+"} THEN Tail(t) ELSE t
    IN  IF u = <<>> \/ IndexOf(DigitChars, Head(u)) = 0
        THEN NaN
        ELSE Num(IF neg THEN 0 - ParseDigits(u, 0) ELSE ParseDigits(u, 0))

(***************************************************************************)
(* Data model and reference dataset                                        *)
(***************************************************************************)
CptCode(id, cptCode, caseDescription, unitValue) ==
    [id |-> id, cptCode |-> cptCode,
     caseDescription |-> caseDescription, unitValue |-> unitValue]

\* Records the external extractor may have produced; the dataset is loaded
\* once and holds the first NumRecords of them.
RecordPool ==
    << CptCode(1, <<"A", "1">>, <<"G", "y", "n">>, 3),
       CptCode(2, <<"b", "2">>, <<"e", "y", "e">>, 5),
       CptCode(3, <<"a", "2">>, <<"g", "Y">>, 8),
       CptCode(4, <<"B", "1">>, <<"b", "a", "n">>, 2),
       CptCode(5, <<"x", "9">>, <<"N", "g", "y">>, 5),
       CptCode(6, <<"e", "1">>, <<"b", "a", "y">>, 9),
       CptCode(7, <<"X", "2">>, <<"G", "Y", "N">>, 3),
       CptCode(8, <<"a", "9">>, <<"e", "x">>, 8) >>

cptData == SubSeq(RecordPool, 1, Min(NumRecords, Len(RecordPool)))

StringFields == {"cptCode", "caseDescription"}
NumberFields == {"id", "unitValue"}
\* keyof CptCode
CptCodeFields == StringFields \cup NumberFields

SortConfig(field, direction) == [field |-> field, direction |-> direction]
SearchFilters(query, minUnitValue, maxUnitValue) ==
    [query |-> query, minUnitValue |-> minUnitValue,
     maxUnitValue |-> maxUnitValue]

(***************************************************************************)
(* Search / filter / sort / pagination library                             *)
(***************************************************************************)
\* A search of the code alone
searchCptCodesCodeOnly(codes, query) ==
    IF Trim(query) = <<>>
    THEN codes
    ELSE LET lowerQuery == Trim(ToLowerCase(query))
         IN  SelectSeq(codes,
                 LAMBDA code :
                     Includes(ToLowerCase(code.cptCode), lowerQuery))

searchCptCodes(codes, query) ==
    IF Trim(query) = <<>>
    THEN codes
    ELSE LET lowerQuery == Trim(ToLowerCase(query))
         IN  SelectSeq(codes,
                 LAMBDA code :
                     \/ Includes(ToLowerCase(code.cptCode), lowerQuery)
                     \/ Includes(ToLowerCase(code.caseDescription), lowerQuery))

\* A filter that takes a bound of 0 for an absent one
filterByUnitValueTruthy(codes, minValue, maxValue) ==
    SelectSeq(codes,
        LAMBDA code :
            /\ ~(minValue # Undefined /\ minValue.n # 0
                    /\ code.unitValue < minValue.n)
            /\ ~(maxValue # Undefined /\ maxValue.n # 0
                    /\ code.unitValue > maxValue.n))

filterByUnitValue(codes, minValue, maxValue) ==
    SelectSeq(codes,
        LAMBDA code :
            /\ ~(minValue # Undefined /\ code.unitValue < minValue.n)
            /\ ~(maxValue # Undefined /\ code.unitValue > maxValue.n))

applyFilters(codes, filters) ==
    LET results == IF filters.query # <<>>
                   THEN searchCptCodes(codes, filters.query)
                   ELSE codes
    IN  filterByUnitValue(results, filters.minUnitValue, filters.maxUnitValue)

\* A comparator that takes every direction for ascending
SortCompareAscending(a, b, config) ==
    IF config.field \in StringFields
    THEN LocaleCompare(ToLowerCase(a[config.field]),
                       ToLowerCase(b[config.field]))
    ELSE IF config.field \in NumberFields
    THEN a[config.field] - b[config.field]
    ELSE 0

\* The comparator of sortCptCodes: negative, zero or positive.
SortCompare(a, b, config) ==
    IF config.field \in StringFields
    THEN LET comparison == LocaleCompare(ToLowerCase(a[config.field]),
                                         ToLowerCase(b[config.field]))
         IN  IF config.direction = "asc" THEN comparison ELSE 0 - comparison
    ELSE IF config.field \in NumberFields
    THEN IF config.direction = "asc"
         THEN a[config.field] - b[config.field]
         ELSE b[config.field] - a[config.field]
    ELSE 0

\* Array.prototype.sort is stable: x goes after every element that does not
\* compare greater than it.
RECURSIVE InsertSorted(_, _, _)
InsertSorted(x, sorted, config) ==
    IF sorted = <<>> THEN <<x>>
    ELSE IF SortCompare(sorted[Len(sorted)], x, config) <= 0
         THEN Append(sorted, x)
         ELSE Append(InsertSorted(x, SubSeq(sorted, 1, Len(sorted) - 1), config),
                     sorted[Len(sorted)])

RECURSIVE SortPrefix(_, _, _)
SortPrefix(codes, k, config) ==
    IF k = 0 THEN <<>>
    ELSE InsertSorted(codes[k], SortPrefix(codes, k - 1, config), config)

sortCptCodes(codes, config) == SortPrefix(codes, Len(codes), config)

\* Array.prototype.slice(start, end), negative indices counted from the end
Slice(s, start, end) ==
    LET n == Len(s)
        from == IF start < 0 THEN Max(n + start, 0) ELSE Min(start, n)
        to == IF end < 0 THEN Max(n + end, 0) ELSE Min(end, n)
    IN  SubSeq(s, from + 1, to)

\* A pagination whose pages start one item late
paginateResultsLate(codes, page, pageSize) ==
    LET startIndex == (page - 1) * pageSize + 1
        endIndex == startIndex + pageSize
    IN  Slice(codes, startIndex, endIndex)

paginateResults(codes, page, pageSize) ==
    LET startIndex == (page - 1) * pageSize
        endIndex == startIndex + pageSize
    IN  Slice(codes, startIndex, endIndex)

\* A page count that rounds down and adds one
calculateTotalPagesFloor(totalItems, pageSize) == (totalItems \div pageSize) + 1

calculateTotalPages(totalItems, pageSize) == Ceil(totalItems, pageSize)

(***************************************************************************)
(* Arrays in memory.  JavaScript passes an array by reference, so what a   *)
(* function does to its argument is seen by the caller.  A heap is the     *)
(* sequence of the arrays that exist, a reference is an index of it, and   *)
(* an array operation returns the heap it leaves and the reference it      *)
(* evaluates to.  The records are the elements; no statement of the        *)
(* library assigns to a property of a record.                              *)
(***************************************************************************)
\* A new array: it takes the next reference.
Allocated(heap, array) == [heap |-> Append(heap, array), ref |-> Len(heap) + 1]

\* A spread that evaluates to the array it is given
ArraySpreadAliased(heap, ref) == [heap |-> heap, ref |-> ref]

\* [...codes] builds a new array with the elements of codes.
ArraySpread(heap, ref) == Allocated(heap, heap[ref])

\* Array.prototype.sort reorders its receiver in place and returns it.
ArraySort(heap, ref, config) ==
    [heap |-> [heap EXCEPT
                   ![ref] = SortPrefix(heap[ref], Len(heap[ref]), config)],
     ref |-> ref]

\* Array.prototype.slice builds a new array and reads its receiver.
ArraySlice(heap, ref, start, end) ==
    Allocated(heap, Slice(heap[ref], start, end))

\* The library functions as they act on the heap; codes is a reference.
\* Array.prototype.filter builds a new array and reads its receiver.
searchCptCodesOnHeap(heap, codes, query) ==
    IF Trim(query) = <<>>
    THEN [heap |-> heap, ref |-> codes]
    ELSE LET lowerQuery == Trim(ToLowerCase(query))
         IN  Allocated(heap, SelectSeq(heap[codes],
                 LAMBDA code :
                     \/ Includes(ToLowerCase(code.cptCode), lowerQuery)
                     \/ Includes(ToLowerCase(code.caseDescription),
                                 lowerQuery)))

filterByUnitValueOnHeap(heap, codes, minValue, maxValue) ==
    Allocated(heap, SelectSeq(heap[codes],
        LAMBDA code :
            /\ ~(minValue # Undefined /\ code.unitValue < minValue.n)
            /\ ~(maxValue # Undefined /\ code.unitValue > maxValue.n)))

applyFiltersOnHeap(heap, codes, filters) ==
    LET results == IF filters.query # <<>>
                   THEN searchCptCodesOnHeap(heap, codes, filters.query)
                   ELSE [heap |-> heap, ref |-> codes]
    IN  filterByUnitValueOnHeap(results.heap, results.ref,
                                filters.minUnitValue, filters.maxUnitValue)

sortCptCodesOnHeap(heap, codes, config) ==
    LET sortedCodes == ArraySpread(heap, codes)
    IN  ArraySort(sortedCodes.heap, sortedCodes.ref, config)

paginateResultsOnHeap(heap, codes, page, pageSize) ==
    LET startIndex == (page - 1) * pageSize
        endIndex == startIndex + pageSize
    IN  ArraySlice(heap, codes, startIndex, endIndex)

(***************************************************************************)
(* State                                                                   *)
(***************************************************************************)
VARIABLES
    \* useSearch: the useState cells, with every queued update applied
    filters, sortConfig, currentPage, pageSize,
    \* whether setFilters / setSortConfig stored a new object since the
    \* last render (the dependency arrays compare by identity)
    filtersNew, sortConfigNew,
    \* the values the last render computed and its closures captured
    view,
    \* the useMemo caches of useSearch
    results, displayedResults,
    \* the array of the Reference Dataset that Home hands to useSearch, as
    \* it is in memory
    dataset,
    \* the passive effects the last commit left to run
    fx,
    \* "idle": nothing scheduled; "update": state updates are queued and a
    \* render is due; "commit": rendered and committed, effects not yet run
    phase,
    \* Search Box: the draft, the live timers, the timer of the last effect,
    \* and how many times the draft changed since a timer last fired
    inputValue, timers, timeoutId, burst,
    \* Filter Panel: the drafts and the validation message
    minInput, maxInput, error,
    \* Login Gate: the draft and the message
    password, loginError,
    \* Shell: local state, the view it last rendered ("loading", "login" or
    \* "search"), and the session storage entry "isAuthenticated"
    isAuthenticated, isLoading, screen, sessionStorage,
    \* the last event: handler, argument, callbacks it invoked, number of
    \* calls in its batch, the page rendered when it began, the draft
    \* changes of the Search Box it delivered and the message the Login Gate
    \* showed when it began
    ev,
    \* the last direct call of a library function or of getPageNumbers: the
    \* function, its arguments, what it returned and the array argument as
    \* it is after the call
    lib,
    \* what the user last did on the page: "goToPage" with the page for an
    \* accepted click on the button of another page, "setPageSize" for a
    \* choice of page size, "clearFilters" for the button of the Filter
    \* Panel, "other" for anything else; and whether the
    \* draft of the Search Box was the query of the controller at that
    \* moment
    user

hookVars == <<filters, sortConfig, currentPage, pageSize, filtersNew,
              sortConfigNew, view, results, displayedResults>>
searchBarVars == <<inputValue, timers, timeoutId, burst>>
filterPanelVars == <<minInput, maxInput, error>>
loginVars == <<password, loginError>>
shellVars == <<isAuthenticated, isLoading, screen, sessionStorage>>
vars == <<hookVars, dataset, fx, phase, searchBarVars, filterPanelVars,
          loginVars, shellVars, ev, lib, user>>

(***************************************************************************)
(* Inputs                                                                  *)
(***************************************************************************)
\* Query texts: empty, one that matches only once trimmed and lower-cased,
\* one that matches code tokens and descriptions.
Queries == { <<>>, <<" ", "G", "Y">>, <<"A">> }
\* Bounds passed to setMinUnitValue / setMaxUnitValue
UnitValues == {Undefined, Num(3), Num(5), Num(8)}
\* Field names passed to toggleSort: the attributes of the Code Record and
\* one name that is none of them.
SortFieldInputs == CptCodeFields \cup {"bogus"}
Directions == {"asc", "desc"}
\* The page-size selector offers 10, 25, 50 and 100 and the hook starts at
\* 25; the model keeps the dataset small and scales the sizes with it.
initialPageSize == 2
PageSizes == {initialPageSize, initialPageSize + 1}
PageInputs == 0..(NumRecords + 1)

(***************************************************************************)
(* useSearch                                                               *)
(***************************************************************************)
InitialFilters == SearchFilters(<<>>, Undefined, Undefined)
InitialSortConfig == SortConfig("id", "asc")

\* useMemo(() => sortCptCodes(applyFilters(data, filters), sortConfig))
ComputeResults(codes, f, config) ==
    sortCptCodes(applyFilters(codes, f), config)

\* A results memo that depends on [data, filters] alone
ResultsDepsWithoutSort == filtersNew

\* The dependencies [data, filters, sortConfig] of the results memo changed.
ResultsDepsChanged == filtersNew \/ sortConfigNew

\* The results memo on the heap: applyFilters is given data itself,
\* sortCptCodes the array applyFilters returned.
ResultsMemoOnHeap(heap, codes, f, config) ==
    LET filtered == applyFiltersOnHeap(heap, codes, f)
    IN  sortCptCodesOnHeap(filtered.heap, filtered.ref, config)

\* The body of the displayedResults memo
ComputeDisplayed(res, page, size) ==
    LET startIndex == (page - 1) * size
        endIndex == startIndex + size
    IN  Slice(res, startIndex, endIndex)

ViewOf(f, config, page, size, res) ==
    [filters |-> f, sortConfig |-> config, currentPage |-> page,
     pageSize |-> size, totalResults |-> Len(res),
     totalPages |-> Ceil(Len(res), size)]

\* A render is due: some state cell differs from what was rendered.
HookDirty ==
    \/ filtersNew
    \/ sortConfigNew
    \/ currentPage # view.currentPage
    \/ pageSize # view.pageSize

\* One render of useSearch: memo caches, derived values and the effects
\* whose dependencies changed.
HookRender ==
    LET res == IF ResultsDepsChanged
               THEN ComputeResults(dataset, filters, sortConfig)
               ELSE results
        v == ViewOf(filters, sortConfig, currentPage, pageSize, res)
    IN  /\ results' = res
        /\ displayedResults' =
              IF \/ ResultsDepsChanged
                 \/ currentPage # view.currentPage
                 \/ pageSize # view.pageSize
              THEN ComputeDisplayed(res, currentPage, pageSize)
              ELSE displayedResults
        /\ view' = v
        /\ dataset' = IF ResultsDepsChanged
                      THEN ResultsMemoOnHeap(<<dataset>>, 1, filters,
                                             sortConfig).heap[1]
                      ELSE dataset
        /\ filtersNew' = FALSE
        /\ sortConfigNew' = FALSE
        /\ UNCHANGED <<filters, sortConfig, currentPage, pageSize>>

\* The effects of useSearch the render leaves pending.
HookEffects ==
    (IF ResultsDepsChanged THEN {"reset"} ELSE {})
    \cup (IF \/ currentPage # view.currentPage
             \/ Ceil(Len(results'), pageSize) # view.totalPages
          THEN {"clamp"} ELSE {})

\* useEffect(() => setCurrentPage(1), [filters, sortConfig])
ResetEffect(page) == 1

\* A clamp effect that never stores a page
ClampEffectIdle(page, v) == page

\* useEffect(() => { if (currentPage > totalPages && totalPages > 0)
\*                      setCurrentPage(totalPages) }, [currentPage, totalPages])
ClampEffect(page, v) ==
    IF v.currentPage > v.totalPages /\ v.totalPages > 0
    THEN v.totalPages
    ELSE page

\* The pending effects of useSearch run in the order they are declared; each
\* setCurrentPage is queued behind the previous one.
HookRunEffects ==
    LET afterReset == IF "reset" \in fx THEN ResetEffect(currentPage)
                      ELSE currentPage
        afterClamp == IF "clamp" \in fx THEN ClampEffect(afterReset, view)
                      ELSE afterReset
    IN  /\ currentPage' = afterClamp
        /\ UNCHANGED <<filters, sortConfig, pageSize, filtersNew,
                       sortConfigNew, view, results, displayedResults>>

\* The setters, as updates of the state cells.
SetFilters(f) ==
    /\ filters' = f
    /\ filtersNew' = TRUE
    /\ UNCHANGED <<sortConfig, sortConfigNew, currentPage, pageSize, view,
                   results, displayedResults>>

\* The setter of the sortConfig cell.  rendered: the argument is the very
\* object the last render read from the cell; React compares with Object.is,
\* so with that object in the cell nothing is scheduled, and any other
\* object, of equal content or not, is a change of the cell.
SetSortConfigCell(config, rendered) ==
    /\ sortConfig' = config
    /\ sortConfigNew' = ~rendered
    /\ UNCHANGED <<filters, filtersNew, currentPage, pageSize, view,
                   results, displayedResults>>

SetCurrentPage(page) ==
    /\ currentPage' = page
    /\ UNCHANGED <<filters, filtersNew, sortConfig, sortConfigNew, pageSize,
                   view, results, displayedResults>>

\* A setQuery that stores the query without the white space around it
setQueryTrimmed(query) == SetFilters([filters EXCEPT !.query = Trim(query)])
setQuery(query) == SetFilters([filters EXCEPT !.query = query])
\* A setMinUnitValue that does not spread the previous filters
setMinUnitValueAlone(value) ==
    SetFilters(SearchFilters(<<>>, value, Undefined))

setMinUnitValue(value) == SetFilters([filters EXCEPT !.minUnitValue = value])
setMaxUnitValue(value) == SetFilters([filters EXCEPT !.maxUnitValue = value])
clearFilters == SetFilters(SearchFilters(<<>>, Undefined, Undefined))

\* A toggle that always starts ascending
ToggledSortAscending(prev, field) == SortConfig(field, "asc")

ToggledSort(prev, field) ==
    SortConfig(field,
               IF prev.field = field /\ prev.direction = "asc"
               THEN "desc" ELSE "asc")

\* The updater of toggleSort returns a new object on every call.
toggleSort(field) == SetSortConfigCell(ToggledSort(sortConfig, field), FALSE)
\* The hook returns the raw setter.  returned: config is the sortConfig
\* object the hook returned from its last render.
setSortConfig(config, returned) == SetSortConfigCell(config, returned)

\* A goToPage guard without the upper limit
GoToPageAcceptsAbove(page) == page >= 1

\* The guards read the values of the render that created the function.
GoToPageAccepts(page) == page >= 1 /\ page <= view.totalPages
goToPage(page) ==
    IF GoToPageAccepts(page) THEN SetCurrentPage(page) ELSE UNCHANGED hookVars

NextPageAccepts == view.currentPage < view.totalPages
nextPage ==
    IF NextPageAccepts THEN SetCurrentPage(currentPage + 1)
    ELSE UNCHANGED hookVars

PrevPageAccepts == view.currentPage > 1
prevPage ==
    IF PrevPageAccepts THEN SetCurrentPage(currentPage - 1)
    ELSE UNCHANGED hookVars

\* A setPageSize that keeps the current page
handleSetPageSizeKeepsPage(size) ==
    /\ pageSize' = size
    /\ UNCHANGED <<currentPage, filters, filtersNew, sortConfig,
                   sortConfigNew, view, results, displayedResults>>

handleSetPageSize(size) ==
    /\ pageSize' = size
    /\ currentPage' = 1
    /\ UNCHANGED <<filters, filtersNew, sortConfig, sortConfigNew, view,
                   results, displayedResults>>

(***************************************************************************)
(* Pagination Control, rendered with the values of the last render         *)
(***************************************************************************)
Ellipsis == [kind |-> "string", n |-> 0]
maxVisiblePages == 7

RECURSIVE PageRange(_, _)
PageRange(from, to) ==
    IF from > to THEN <<>> ELSE <<Num(from)>> \o PageRange(from + 1, to)

\* A window of two pages on either side of the current one
getPageNumbersWide(page, totalPages) ==
    IF totalPages <= maxVisiblePages
    THEN PageRange(1, totalPages)
    ELSE LET startPage == Max(2, page - 2)
             endPage == Min(totalPages - 1, page + 2)
         IN  <<Num(1)>>
             \o (IF startPage > 2 THEN <<Ellipsis>> ELSE <<>>)
             \o PageRange(startPage, endPage)
             \o (IF endPage < totalPages - 1 THEN <<Ellipsis>> ELSE <<>>)
             \o <<Num(totalPages)>>

getPageNumbers(page, totalPages) ==
    IF totalPages <= maxVisiblePages
    THEN PageRange(1, totalPages)
    ELSE LET startPage == Max(2, page - 1)
             endPage == Min(totalPages - 1, page + 1)
         IN  <<Num(1)>>
             \o (IF startPage > 2 THEN <<Ellipsis>> ELSE <<>>)
             \o PageRange(startPage, endPage)
             \o (IF endPage < totalPages - 1 THEN <<Ellipsis>> ELSE <<>>)
             \o <<Num(totalPages)>>

getItemRange(page, size, totalItems) ==
    [start |-> (page - 1) * size + 1, end |-> Min(page * size, totalItems)]

\* handlePageChange forwards a target only within [1, totalPages].
HandlePageChangeAccepts(page) == page >= 1 /\ page <= view.totalPages

\* The callbacks handlePageChange(page) invokes.
HandlePageChangeCalls(page) ==
    IF HandlePageChangeAccepts(page)
    THEN << [fn |-> "onPageChange", arg |-> page] >>
    ELSE <<>>

\* onPageChange is wired to goToPage.
handlePageChange(page) ==
    IF HandlePageChangeAccepts(page) THEN goToPage(page)
    ELSE UNCHANGED hookVars

\* The targets the enabled buttons of the control produce: previous, next
\* and the numbered pages of the window.
ButtonTargets ==
    (IF view.currentPage # 1 THEN {view.currentPage - 1} ELSE {})
    \cup (IF view.currentPage # view.totalPages
          THEN {view.currentPage + 1} ELSE {})
    \cup { e.n : e \in { getPageNumbers(view.currentPage, view.totalPages)[i] :
                         i \in 1..Len(getPageNumbers(view.currentPage,
                                                     view.totalPages)) }
                     \ {Ellipsis} }

(***************************************************************************)
(* Events                                                                  *)
(***************************************************************************)
\* React batches the state updates of one event handler and renders once
\* after it: a handler runs when nothing is scheduled, or again within the
\* batch of the same event, from the same render's closure.
CanCall(op) ==
    \/ phase = "idle"
    \/ phase = "update" /\ ev.op = op /\ ev.n > 0 /\ ev.n < MaxCalls

Record(op, arg, calls) ==
    /\ ev' = [op |-> op, arg |-> arg, calls |-> calls,
              n |-> IF phase = "idle" THEN 1 ELSE ev.n + 1,
              page0 |-> IF phase = "idle" THEN view.currentPage
                        ELSE ev.page0,
              burst0 |-> 0, error0 |-> ""]
    /\ UNCHANGED <<dataset, lib, user>>

\* A render is scheduled when a state cell changed.
ScheduleHook == phase' = IF HookDirty' THEN "update" ELSE "idle"

uiVars == <<searchBarVars, filterPanelVars, loginVars, shellVars>>

(***************************************************************************)
(* The controller on its own: useSearch mounted over the dataset and       *)
(* driven through the functions it returns.                                *)
(***************************************************************************)
CallSetQuery ==
    \E query \in Queries :
        /\ CanCall("setQuery")
        /\ setQuery(query)
        /\ Record("setQuery", query, <<>>)
        /\ ScheduleHook
        /\ UNCHANGED <<fx, uiVars>>

CallSetMinUnitValue ==
    \E value \in UnitValues :
        /\ CanCall("setMinUnitValue")
        /\ setMinUnitValue(value)
        /\ Record("setMinUnitValue", value, <<>>)
        /\ ScheduleHook
        /\ UNCHANGED <<fx, uiVars>>

CallSetMaxUnitValue ==
    \E value \in UnitValues :
        /\ CanCall("setMaxUnitValue")
        /\ setMaxUnitValue(value)
        /\ Record("setMaxUnitValue", value, <<>>)
        /\ ScheduleHook
        /\ UNCHANGED <<fx, uiVars>>

CallClearFilters ==
    /\ CanCall("clearFilters")
    /\ clearFilters
    /\ Record("clearFilters", <<>>, <<>>)
    /\ ScheduleHook
    /\ UNCHANGED <<fx, uiVars>>

CallToggleSort ==
    \E field \in SortFieldInputs :
        /\ CanCall("toggleSort")
        /\ toggleSort(field)
        /\ Record("toggleSort", field, <<>>)
        /\ ScheduleHook
        /\ UNCHANGED <<fx, uiVars>>

\* The caller passes the object the hook returned or one of its own making,
\* of any content.
CallSetSortConfig ==
    \E field \in CptCodeFields, direction \in Directions,
       returned \in BOOLEAN :
        /\ CanCall("setSortConfig")
        /\ returned => SortConfig(field, direction) = view.sortConfig
        /\ setSortConfig(SortConfig(field, direction), returned)
        /\ Record("setSortConfig", SortConfig(field, direction), <<>>)
        /\ ScheduleHook
        /\ UNCHANGED <<fx, uiVars>>

CallGoToPage ==
    \E page \in PageInputs :
        /\ CanCall("goToPage")
        /\ goToPage(page)
        /\ Record("goToPage", page, <<>>)
        /\ ScheduleHook
        /\ UNCHANGED <<fx, uiVars>>

CallNextPage ==
    /\ CanCall("nextPage")
    /\ nextPage
    /\ Record("nextPage", <<>>, <<>>)
    /\ ScheduleHook
    /\ UNCHANGED <<fx, uiVars>>

CallPrevPage ==
    /\ CanCall("prevPage")
    /\ prevPage
    /\ Record("prevPage", <<>>, <<>>)
    /\ ScheduleHook
    /\ UNCHANGED <<fx, uiVars>>

CallSetPageSize ==
    \E size \in PageSizes :
        /\ CanCall("setPageSize")
        /\ handleSetPageSize(size)
        /\ Record("setPageSize", size, <<>>)
        /\ ScheduleHook
        /\ UNCHANGED <<fx, uiVars>>

\* A Pagination Control bound to the hook, as the page renders it while
\* there are results; its handler is invoked with any target.
ClickPage ==
    \E page \in PageInputs :
        /\ CanCall("handlePageChange")
        /\ view.totalResults > 0
        /\ handlePageChange(page)
        /\ Record("handlePageChange", page, HandlePageChangeCalls(page))
        /\ ScheduleHook
        /\ UNCHANGED <<fx, uiVars>>

\* React renders the hook: the queued updates are in the cells already.
ControllerRender ==
    /\ phase = "update"
    /\ HookRender
    /\ fx' = HookEffects
    /\ phase' = IF fx' = {} THEN "idle" ELSE "commit"
    /\ ev' = [ev EXCEPT !.n = 0]
    /\ UNCHANGED <<uiVars, lib, user>>

\* React flushes the passive effects of the commit.
ControllerRunEffects ==
    /\ phase = "commit"
    /\ HookRunEffects
    /\ fx' = {}
    /\ ScheduleHook
    /\ UNCHANGED <<dataset, ev, uiVars, lib, user>>

NoCall == [fn |-> "none", args |-> <<>>, ret |-> <<>>, input |-> <<>>]

NoInput == [op |-> "none", page |-> 1, synced |-> TRUE]

NoEvent ==
    [op |-> "none", arg |-> <<>>, calls |-> <<>>, n |-> 0, page0 |-> 1,
     burst0 |-> 0, error0 |-> ""]

\* The hook after its first render and its mount effects.
HookInit ==
    /\ filters = InitialFilters
    /\ sortConfig = InitialSortConfig
    /\ currentPage = 1
    /\ pageSize = initialPageSize
    /\ filtersNew = FALSE
    /\ sortConfigNew = FALSE
    /\ dataset = cptData
    /\ results = ComputeResults(dataset, InitialFilters,
                                InitialSortConfig)
    /\ displayedResults = ComputeDisplayed(results, 1, initialPageSize)
    /\ view = ViewOf(InitialFilters, InitialSortConfig, 1, initialPageSize,
                     results)

UiInit ==
    /\ inputValue = <<>>
    /\ timers = {}
    /\ timeoutId = 0
    /\ burst = 0
    /\ minInput = <<>>
    /\ maxInput = <<>>
    /\ error = "null"
    /\ password = <<>>
    /\ loginError = ""
    /\ isAuthenticated = FALSE
    /\ isLoading = TRUE
    /\ screen = "loading"

Init ==
    /\ HookInit
    /\ UiInit
    /\ sessionStorage = "null"
    /\ fx = {}
    /\ phase = "idle"
    /\ ev = NoEvent
    /\ lib = NoCall
    /\ user = NoInput

Next ==
    \/ CallSetQuery
    \/ CallSetMinUnitValue
    \/ CallSetMaxUnitValue
    \/ CallClearFilters
    \/ CallToggleSort
    \/ CallSetSortConfig
    \/ CallGoToPage
    \/ CallNextPage
    \/ CallPrevPage
    \/ CallSetPageSize
    \/ ClickPage
    \/ ControllerRender
    \/ ControllerRunEffects

Spec == Init /\ [][Next]_vars

(***************************************************************************)
(* Search Box                                                              *)
(***************************************************************************)
\* The handle setTimeout returns: the least one that no live timer holds.
NewTimerId(live) ==
    CHOOSE id \in 1..(Cardinality(live) + 1) :
        /\ \A t \in live : t.id # id
        /\ \A other \in 1..(id - 1) : \E t \in live : t.id = other

\* clearTimeout(id)
\* A clearTimeout that cancels nothing
ClearTimeoutIgnored(live, id) == live

ClearTimeout(live, id) == { t \in live : t.id # id }

\* A debounce effect that returns no cleanup
DebounceNoCleanup(live) == live

\* The cleanup of the previous run of the debounce effect
DebounceCleanup(live) == ClearTimeout(live, timeoutId)

\* One run of the debounce effect: the cleanup of the previous run, then
\* setTimeout(() => onSearch(inputValue), debounceMs).
DebounceEffect ==
    LET live == DebounceCleanup(timers)
    IN  /\ timers' = live \cup {[id |-> NewTimerId(live), value |-> inputValue]}
        /\ timeoutId' = NewTimerId(live)

\* The Search Box unmounts: only the cleanup runs.
DebounceUnmount ==
    /\ timers' = DebounceCleanup(timers)
    /\ timeoutId' = 0

(***************************************************************************)
(* Filter Panel                                                            *)
(***************************************************************************)
NoError == "null"
\* a > b on JavaScript numbers: false when either is NaN
JsGreater(a, b) == a.kind = "number" /\ b.kind = "number" /\ a.n > b.n
JsLess(a, b) == a.kind = "number" /\ b.kind = "number" /\ a.n < b.n

\* What handleMinChange(value) does besides storing the draft: the message
\* it sets and the callbacks it invokes.
MinChangeOutcome(value, maxIn) ==
    IF value = <<>>
    THEN [error |-> NoError,
          calls |-> << [fn |-> "onMinValueChange", arg |-> Undefined] >>]
    ELSE LET numValue == ParseInt(value)
             maxNum == IF maxIn # <<>> THEN ParseInt(maxIn) ELSE Undefined
         IN  IF numValue = NaN
             THEN [error |-> "Please enter a valid number", calls |-> <<>>]
             ELSE IF numValue.n < 0
             THEN [error |-> "Unit value must be positive", calls |-> <<>>]
             ELSE IF maxNum # Undefined /\ JsGreater(numValue, maxNum)
             THEN [error |-> "Min value cannot be greater than max value",
                   calls |-> <<>>]
             ELSE [error |-> NoError,
                   calls |-> << [fn |-> "onMinValueChange",
                                 arg |-> numValue] >>]

\* A handleMaxChange that does not compare with the other field
MaxChangeOutcomeAlone(value, minIn) ==
    IF value = <<>>
    THEN [error |-> NoError,
          calls |-> << [fn |-> "onMaxValueChange", arg |-> Undefined] >>]
    ELSE LET numValue == ParseInt(value)
         IN  IF numValue = NaN
             THEN [error |-> "Please enter a valid number", calls |-> <<>>]
             ELSE IF numValue.n < 0
             THEN [error |-> "Unit value must be positive", calls |-> <<>>]
             ELSE [error |-> NoError,
                   calls |-> << [fn |-> "onMaxValueChange",
                                 arg |-> numValue] >>]

MaxChangeOutcome(value, minIn) ==
    IF value = <<>>
    THEN [error |-> NoError,
          calls |-> << [fn |-> "onMaxValueChange", arg |-> Undefined] >>]
    ELSE LET numValue == ParseInt(value)
             minNum == IF minIn # <<>> THEN ParseInt(minIn) ELSE Undefined
         IN  IF numValue = NaN
             THEN [error |-> "Please enter a valid number", calls |-> <<>>]
             ELSE IF numValue.n < 0
             THEN [error |-> "Unit value must be positive", calls |-> <<>>]
             ELSE IF minNum # Undefined /\ JsLess(numValue, minNum)
             THEN [error |-> "Max value cannot be less than min value",
                   calls |-> <<>>]
             ELSE [error |-> NoError,
                   calls |-> << [fn |-> "onMaxValueChange",
                                 arg |-> numValue] >>]

\* onMinValueChange is wired to setMinUnitValue.
handleMinChange(value) ==
    LET outcome == MinChangeOutcome(value, maxInput)
    IN  /\ minInput' = value
        /\ error' = outcome.error
        /\ IF outcome.calls # <<>>
           THEN setMinUnitValue(outcome.calls[1].arg)
           ELSE UNCHANGED hookVars
        /\ UNCHANGED maxInput

\* onMaxValueChange is wired to setMaxUnitValue.
handleMaxChange(value) ==
    LET outcome == MaxChangeOutcome(value, minInput)
    IN  /\ maxInput' = value
        /\ error' = outcome.error
        /\ IF outcome.calls # <<>>
           THEN setMaxUnitValue(outcome.calls[1].arg)
           ELSE UNCHANGED hookVars
        /\ UNCHANGED minInput

\* "Clear filters", wired to clearFilters
handleClear ==
    /\ minInput' = <<>>
    /\ maxInput' = <<>>
    /\ error' = NoError
    /\ clearFilters

hasActiveFilters == minInput # <<>> \/ maxInput # <<>>

\* Texts a number field reports: empty, three numbers, a negative number
\* and a fraction without an integer part, which parseInt reads as NaN.
DraftTexts == { <<>>, <<"3">>, <<"5">>, <<"8">>, <<"-", "1">>, <<".", "5">> }
\* The texts entered while the whole page is explored
PageDraftTexts == { <<>>, <<"3">>, <<"5">> }

(***************************************************************************)
(* Login Gate and Shell                                                    *)
(***************************************************************************)
\* process.env.NEXT_PUBLIC_APP_PASSWORD
correctPassword == <<"G", "a", "x">>
PasswordTexts == { correctPassword, ToLowerCase(correctPassword) }
IncorrectPassword == "Incorrect password. Please try again."

\* A submit that compares without regard to case
handleSubmitAnyCase ==
    IF ToLowerCase(password) = ToLowerCase(correctPassword)
    THEN /\ sessionStorage' = "true"
         /\ isAuthenticated' = TRUE
         /\ loginError' = ""
         /\ UNCHANGED password
    ELSE /\ loginError' = IncorrectPassword
         /\ password' = <<>>
         /\ UNCHANGED <<sessionStorage, isAuthenticated>>

\* A submit that does not write the session flag
handleSubmitNoFlag ==
    IF password = correctPassword
    THEN /\ isAuthenticated' = TRUE
         /\ loginError' = ""
         /\ UNCHANGED <<password, sessionStorage>>
    ELSE /\ loginError' = IncorrectPassword
         /\ password' = <<>>
         /\ UNCHANGED <<sessionStorage, isAuthenticated>>

handleSubmit ==
    IF password = correctPassword
    THEN /\ sessionStorage' = "true"
         /\ isAuthenticated' = TRUE
         /\ loginError' = ""
         /\ UNCHANGED password
    ELSE /\ loginError' = IncorrectPassword
         /\ password' = <<>>
         /\ UNCHANGED <<sessionStorage, isAuthenticated>>

\* A render without the login branch
ScreenOfNoGate(loading, authenticated) ==
    IF loading THEN "loading" ELSE "search"

\* The branch of Home's render
ScreenOf(loading, authenticated) ==
    IF loading THEN "loading"
    ELSE IF ~authenticated THEN "login"
    ELSE "search"

\* Home renders again when a state cell of the hook or of the Shell changed.
HomeDirty == HookDirty \/ screen # ScreenOf(isLoading, isAuthenticated)
ScheduleHome == phase' = IF HomeDirty' THEN "update" ELSE "idle"

\* A mount-time check that does not read session storage
AuthCheckEffectBlind ==
    /\ isAuthenticated' = isAuthenticated
    /\ isLoading' = FALSE

\* The mount-time check of session storage
AuthCheckEffect ==
    /\ isAuthenticated' = (isAuthenticated \/ sessionStorage = "true")
    /\ isLoading' = FALSE

(***************************************************************************)
(* The gated page: Home with the Login Gate, the Search Box, the Filter    *)
(* Panel, the Results Table and the Pagination Control, all on one         *)
(* useSearch.  A user event or a timer runs when nothing is scheduled.     *)
(***************************************************************************)
OnSearchScreen == phase = "idle" /\ screen = "search"

\* What a handler run by the user amounts to: a click on a page button
\* that called onPageChange with another page than the current one, a
\* choice in the page-size selector, "Clear filters", or something else.
InputOf(op, arg, calls) ==
    LET moved == op = "handlePageChange" /\ calls # <<>> /\ arg # currentPage
    IN  [op |-> IF moved THEN "goToPage"
                ELSE IF op = "onPageSizeChange" THEN "setPageSize"
                ELSE IF op = "handleClear" THEN "clearFilters"
                ELSE "other",
         page |-> IF moved THEN arg ELSE 1,
         synced |-> inputValue = filters.query]
Fresh(op, arg, calls) ==
    /\ ev' = [op |-> op, arg |-> arg, calls |-> calls, n |-> 1,
              page0 |-> view.currentPage, burst0 |-> burst,
              error0 |-> loginError]
    /\ user' = IF op = "timer" THEN user ELSE InputOf(op, arg, calls)
    /\ UNCHANGED <<dataset, lib>>

\* After a handler Home renders when one of its state cells changed;
\* otherwise only the component of the handler has rendered again, with no
\* effect pending.
AfterHandler ==
    /\ phase' = IF HomeDirty' THEN "update" ELSE "commit"
    /\ fx' = {}

\* onChange of the search input, or its clear button: the Search Box alone
\* renders again and its effect is pending.
TypeSearch ==
    \E value \in Queries :
        /\ OnSearchScreen
        /\ value # inputValue
        /\ inputValue' = value
        /\ burst' = Min(burst + 1, MaxBurst)
        /\ fx' = {"debounce"}
        /\ phase' = "commit"
        /\ Fresh("typeSearch", value, <<>>)
        /\ UNCHANGED <<hookVars, timers, timeoutId, filterPanelVars,
                       loginVars, shellVars>>

ClearSearch ==
    /\ OnSearchScreen
    /\ inputValue # <<>>
    /\ inputValue' = <<>>
    /\ burst' = Min(burst + 1, MaxBurst)
    /\ fx' = {"debounce"}
    /\ phase' = "commit"
    /\ Fresh("clearSearch", <<>>, <<>>)
    /\ UNCHANGED <<hookVars, timers, timeoutId, filterPanelVars, loginVars,
                   shellVars>>

\* A live timer fires once its delay has passed: onSearch(inputValue) of
\* the render that started it, which is setQuery.
TimerFires ==
    \E t \in timers :
        /\ phase = "idle"
        /\ timers' = timers \ {t}
        /\ burst' = 0
        /\ setQuery(t.value)
        /\ Fresh("timer", t.value, << [fn |-> "onSearch", arg |-> t.value] >>)
        /\ UNCHANGED <<inputValue, timeoutId, filterPanelVars, loginVars,
                       shellVars>>
        /\ AfterHandler

EditMin(texts) ==
    \E value \in texts :
        /\ OnSearchScreen
        /\ value # minInput
        /\ handleMinChange(value)
        /\ Fresh("handleMinChange", value,
                 MinChangeOutcome(value, maxInput).calls)
        /\ UNCHANGED <<searchBarVars, loginVars, shellVars>>
        /\ AfterHandler

EditMax(texts) ==
    \E value \in texts :
        /\ OnSearchScreen
        /\ value # maxInput
        /\ handleMaxChange(value)
        /\ Fresh("handleMaxChange", value,
                 MaxChangeOutcome(value, minInput).calls)
        /\ UNCHANGED <<searchBarVars, loginVars, shellVars>>
        /\ AfterHandler

ClickClearFilters ==
    /\ OnSearchScreen
    /\ hasActiveFilters
    /\ handleClear
    /\ Fresh("handleClear", <<>>, << [fn |-> "onClearFilters", arg |-> <<>>] >>)
    /\ UNCHANGED <<searchBarVars, loginVars, shellVars>>
    /\ AfterHandler

\* A click on a column header of the Results Table; the headers clicked
\* are one of a text column and one of a number column.
SortColumns == {"cptCode", "unitValue"}
\* The Results Table renders its header only with rows to show: with none
\* it returns the "No results found" panel.  (isLoading of useSearch is
\* never set.)
ResultsTableHasHeader == Len(displayedResults) # 0
ClickSort ==
    \E field \in SortColumns :
        /\ OnSearchScreen
        /\ ResultsTableHasHeader
        /\ toggleSort(field)
        /\ Fresh("onSort", field, << [fn |-> "onSort", arg |-> field] >>)
        /\ UNCHANGED uiVars
        /\ AfterHandler

\* A click on an enabled button of the Pagination Control
ClickPageButton ==
    \E page \in ButtonTargets :
        /\ OnSearchScreen
        /\ view.totalResults > 0
        /\ handlePageChange(page)
        /\ Fresh("handlePageChange", page, HandlePageChangeCalls(page))
        /\ UNCHANGED uiVars
        /\ AfterHandler

SelectPageSize ==
    \E size \in PageSizes :
        /\ OnSearchScreen
        /\ view.totalResults > 0
        /\ size # view.pageSize
        /\ handleSetPageSize(size)
        /\ Fresh("onPageSizeChange", size,
                 << [fn |-> "onPageSizeChange", arg |-> size] >>)
        /\ UNCHANGED uiVars
        /\ AfterHandler

TypePassword ==
    \E value \in PasswordTexts \cup {<<>>} :
        /\ phase = "idle"
        /\ screen = "login"
        /\ value # password
        /\ password' = value
        /\ Fresh("typePassword", value, <<>>)
        /\ UNCHANGED <<hookVars, searchBarVars, filterPanelVars,
                       loginError, shellVars>>
        /\ AfterHandler

\* The form submits only a non-empty password.
SubmitLogin ==
    /\ phase = "idle"
    /\ screen = "login"
    /\ password # <<>>
    /\ handleSubmit
    /\ Fresh("handleSubmit", password,
             IF password = correctPassword
             THEN << [fn |-> "onLogin", arg |-> <<>>] >> ELSE <<>>)
    /\ UNCHANGED <<hookVars, searchBarVars, filterPanelVars, isLoading,
                   screen>>
    /\ AfterHandler

Logout ==
    /\ OnSearchScreen
    /\ sessionStorage' = "null"
    /\ isAuthenticated' = FALSE
    /\ Fresh("logout", <<>>, <<>>)
    /\ UNCHANGED <<hookVars, searchBarVars, filterPanelVars, loginVars,
                   isLoading, screen>>
    /\ AfterHandler

\* Home renders: the hook runs, the branch is chosen, the components that
\* leave the tree lose their state, and the effects with changed
\* dependencies are left pending.  setQuery is a new function in every
\* render, so the debounce effect of a mounted Search Box always is.
HomeRender ==
    /\ phase = "update"
    /\ HookRender
    /\ screen' = ScreenOf(isLoading, isAuthenticated)
    /\ IF screen' = "search"
       THEN UNCHANGED <<inputValue, burst, filterPanelVars>>
       ELSE /\ inputValue' = <<>>
            /\ burst' = 0
            /\ minInput' = <<>>
            /\ maxInput' = <<>>
            /\ error' = NoError
    /\ IF screen' = "login"
       THEN UNCHANGED loginVars
       ELSE /\ password' = <<>>
            /\ loginError' = ""
    /\ fx' = HookEffects
                \cup (IF screen' = "search" THEN {"debounce"} ELSE {})
                \cup (IF screen = "search" /\ screen' # "search"
                      THEN {"unmount"} ELSE {})
    /\ phase' = "commit"
    /\ ev' = [ev EXCEPT !.n = 0]
    /\ UNCHANGED <<timers, timeoutId, isAuthenticated, isLoading,
                   sessionStorage, lib, user>>

\* The passive effects of the commit: those of the children, then Home's in
\* the order of their declaration.
HomeRunEffects ==
    /\ phase = "commit"
    /\ IF "debounce" \in fx THEN DebounceEffect
       ELSE IF "unmount" \in fx THEN DebounceUnmount
       ELSE UNCHANGED <<timers, timeoutId>>
    /\ IF "authCheck" \in fx THEN AuthCheckEffect
       ELSE UNCHANGED <<isAuthenticated, isLoading>>
    /\ HookRunEffects
    /\ fx' = {}
    /\ UNCHANGED <<dataset, inputValue, burst, filterPanelVars,
                   loginVars, screen, sessionStorage, lib, user>>
    /\ ScheduleHome
    /\ ev' = IF phase' = "idle" THEN NoEvent ELSE ev

\* Home after its first render: the session check and the mount effects
\* are pending; the tab may hold the flag of an earlier login.
InitApp ==
    /\ HookInit
    /\ UiInit
    /\ sessionStorage \in {"null", "true"}
    /\ fx = {"authCheck"}
    /\ phase = "commit"
    /\ ev = NoEvent
    /\ lib = NoCall
    /\ user = NoInput

NextApp ==
    \/ TypeSearch
    \/ ClearSearch
    \/ TimerFires
    \/ EditMin(PageDraftTexts)
    \/ EditMax(PageDraftTexts)
    \/ ClickClearFilters
    \/ ClickSort
    \/ ClickPageButton
    \/ SelectPageSize
    \/ TypePassword
    \/ SubmitLogin
    \/ Logout
    \/ HomeRender
    \/ HomeRunEffects

SpecApp == InitApp /\ [][NextApp]_vars

(***************************************************************************)
(* The search screen with the user at the Filter Panel: the page after a   *)
(* login, the first debounce timer running, and every text of DraftTexts   *)
(* entered in the two fields.                                              *)
(***************************************************************************)
InitPanel ==
    /\ HookInit
    /\ inputValue = <<>>
    /\ burst = 0
    /\ timers = {[id |-> 1, value |-> <<>>]}
    /\ timeoutId = 1
    /\ minInput = <<>>
    /\ maxInput = <<>>
    /\ error = NoError
    /\ password = <<>>
    /\ loginError = ""
    /\ isAuthenticated = TRUE
    /\ isLoading = FALSE
    /\ screen = "search"
    /\ sessionStorage = "true"
    /\ fx = {}
    /\ phase = "idle"
    /\ ev = NoEvent
    /\ lib = NoCall
    /\ user = NoInput

NextPanel ==
    \/ EditMin(DraftTexts)
    \/ EditMax(DraftTexts)
    \/ ClickClearFilters
    \/ TimerFires
    \/ HomeRender
    \/ HomeRunEffects

SpecPanel == InitPanel /\ [][NextPanel]_vars

(***************************************************************************)
(* The search screen with the user at the Search Box and the Filter Panel, *)
(* under the scheduling of the browser and of React: a timer whose delay   *)
(* has passed fires, a render that is due is made, and the effects of a    *)
(* commit are run.  Nothing obliges the user to act.                       *)
(***************************************************************************)
NextSearch ==
    \/ TypeSearch
    \/ ClearSearch
    \/ EditMin(PageDraftTexts)
    \/ EditMax(PageDraftTexts)
    \/ ClickClearFilters
    \/ TimerFires
    \/ HomeRender
    \/ HomeRunEffects

\* Each of the three scheduled steps changes phase or timers.
schedVars == <<phase, timers>>

SpecSearchLive ==
    /\ InitPanel
    /\ [][NextSearch]_vars
    /\ WF_schedVars(TimerFires)
    /\ WF_schedVars(HomeRender)
    /\ WF_schedVars(HomeRunEffects)

(***************************************************************************)
(* The library functions and getPageNumbers called directly, each with     *)
(* every argument of the input sets, on a page that is otherwise at rest.  *)
(***************************************************************************)
LibFrame == UNCHANGED <<hookVars, dataset, fx, phase, uiVars, ev, user>>

\* A record whose code and description are those of the first record of
\* the dataset in another case
CaseVariant == CptCode(9, <<"a", "1">>, <<"g", "Y", "N">>, 3)
\* The records of the dataset and the case variant
LibRecords == { cptData[i] : i \in 1..Len(cptData) } \cup {CaseVariant}
\* Arrays of up to MaxArrayLen of these records, in any order and with
\* repetitions
Arrays == UNION { [1..n -> LibRecords] : n \in 0..MaxArrayLen }
\* Queries: those of the controller, white space alone, a text with
\* trailing white space and a text in mixed case
LibQueries == Queries \cup { <<" ">>, <<"y", " ">>, <<"Y", "e">> }
LibFilters ==
    { SearchFilters(q, lo, hi) : q \in Queries, lo \in UnitValues,
                                 hi \in UnitValues }
LibSortConfigs ==
    { SortConfig(f, d) : f \in CptCodeFields, d \in Directions }
\* Bounds: those of the controller and 0
LibUnitValues == UnitValues \cup {Num(0)}
LibPages == 0..(MaxArrayLen + 1)
LibPageSizes == 1..initialPageSize

\* The Pagination Control rendered with currentPage in 1..totalPages
CallGetPageNumbers ==
    /\ lib = NoCall
    /\ \E totalPages \in 1..MaxTotalPages :
           \E page \in 1..totalPages :
               /\ lib' = [fn |-> "getPageNumbers",
                          args |-> <<page, totalPages>>,
                          ret |-> getPageNumbers(page, totalPages),
                          input |-> <<>>]
               /\ LibFrame

CallSearchCptCodes ==
    /\ lib = NoCall
    /\ \E codes \in Arrays, query \in LibQueries :
           /\ lib' = [fn |-> "searchCptCodes",
                      args |-> <<codes, query>>,
                      ret |-> searchCptCodes(codes, query),
                      input |-> searchCptCodesOnHeap(<<codes>>, 1,
                                                    query).heap[1]]
           /\ LibFrame

CallFilterByUnitValue ==
    /\ lib = NoCall
    /\ \E codes \in Arrays, minValue \in LibUnitValues,
             maxValue \in LibUnitValues :
           /\ lib' = [fn |-> "filterByUnitValue",
                      args |-> <<codes, minValue, maxValue>>,
                      ret |-> filterByUnitValue(codes, minValue, maxValue),
                      input |-> filterByUnitValueOnHeap(
                                    <<codes>>, 1, minValue, maxValue).heap[1]]
           /\ LibFrame

CallApplyFilters ==
    /\ lib = NoCall
    /\ \E codes \in Arrays, f \in LibFilters :
           /\ lib' = [fn |-> "applyFilters",
                      args |-> <<codes, f>>,
                      ret |-> applyFilters(codes, f),
                      input |-> applyFiltersOnHeap(<<codes>>, 1, f).heap[1]]
           /\ LibFrame

CallSortCptCodes ==
    /\ lib = NoCall
    /\ \E codes \in Arrays, config \in LibSortConfigs :
           /\ lib' = [fn |-> "sortCptCodes",
                      args |-> <<codes, config>>,
                      ret |-> sortCptCodes(codes, config),
                      input |-> sortCptCodesOnHeap(<<codes>>, 1,
                                                    config).heap[1]]
           /\ LibFrame

CallPaginateResults ==
    /\ lib = NoCall
    /\ \E codes \in Arrays, page \in LibPages, size \in LibPageSizes :
           /\ lib' = [fn |-> "paginateResults",
                      args |-> <<codes, page, size>>,
                      ret |-> paginateResults(codes, page, size),
                      input |-> paginateResultsOnHeap(<<codes>>, 1, page,
                                                       size).heap[1]]
           /\ LibFrame

\* The results memo of useSearch computed over the dataset
CallResultsMemo ==
    /\ lib = NoCall
    /\ \E f \in LibFilters, config \in LibSortConfigs :
           /\ lib' = [fn |-> "results",
                      args |-> <<dataset, f, config>>,
                      ret |-> ComputeResults(dataset, f, config),
                      input |-> ResultsMemoOnHeap(<<dataset>>, 1, f,
                                                  config).heap[1]]
           /\ dataset' = ResultsMemoOnHeap(<<dataset>>, 1, f,
                                           config).heap[1]
           /\ UNCHANGED <<hookVars, fx, phase, uiVars, ev, user>>

LibReturn ==
    /\ lib # NoCall
    /\ lib' = NoCall
    /\ LibFrame

InitLib == Init

NextLib ==
    \/ CallGetPageNumbers
    \/ CallSearchCptCodes
    \/ CallFilterByUnitValue
    \/ CallApplyFilters
    \/ CallSortCptCodes
    \/ CallPaginateResults
    \/ CallResultsMemo
    \/ LibReturn

SpecLib == InitLib /\ [][NextLib]_vars

(***************************************************************************)
(* The dataset in memory: useSearch driven through the functions it        *)
(* returns, and the library called on arrays of records.  The library      *)
(* functions read nothing but their arguments, so they are called from     *)
(* the state after the mount; a call returns before the next operation.    *)
(***************************************************************************)
NextData ==
    \/ lib = NoCall /\ Next
    \/ ev.op = "none" /\ NextLib

SpecData == Init /\ [][NextData]_vars

(***************************************************************************)
(* Properties                                                              *)
(***************************************************************************)
FilterOps == {"setQuery", "setMinUnitValue", "setMaxUnitValue", "clearFilters"}
SortOps == {"toggleSort", "setSortConfig"}

\* Nothing is scheduled: every render and reactive rule that the last event
\* caused has run.
Settled == phase = "idle"

\* This step is a call of the handler op (the arguments of two handlers
\* are compared only when the handlers are the same).
Called(op) ==
    /\ ev'.op = op
    /\ ev'.n > 0
    /\ \/ ev.op # op
       \/ ev.n # ev'.n
       \/ ev.page0 # ev'.page0
       \/ ev.arg # ev'.arg

\* C1: once a change of the filters or of the sort configuration has been
\* applied and the reactive rules have run, currentPage is 1.
C1_PageResetAfterChange ==
    (Settled /\ ev.op \in FilterOps \cup SortOps) => currentPage = 1

\* C2: when a filter change leaves fewer pages than the page that was
\* current, and at least one, currentPage is the new page count once the
\* reactive rules have run.
C2_ClampToLastPage ==
    (/\ Settled
     /\ ev.op \in FilterOps
     /\ view.totalPages < ev.page0
     /\ view.totalPages > 0)
    => currentPage = view.totalPages

C2_Witness ==
    /\ Settled
    /\ ev.op \in FilterOps
    /\ view.totalPages < ev.page0
    /\ view.totalPages > 1
    /\ currentPage = view.totalPages

\* C3: whenever a render has a positive page count, the page it shows lies
\* in 1..totalPages, the renders between a change and the reactive rules
\* included.
C3_RenderedPageInRange ==
    view.totalPages > 0 =>
        (1 <= view.currentPage /\ view.currentPage <= view.totalPages)

\* C9: goToPage(page) stores page when 1 <= page <= totalPages and otherwise
\* changes nothing of the controller state; the Pagination Control invokes
\* its page-change callback only for such a page.
C9_GoToPageGuarded ==
    [][/\ Called("goToPage") =>
            IF 1 <= ev'.arg /\ ev'.arg <= view.totalPages
            THEN /\ currentPage' = ev'.arg
                 /\ UNCHANGED <<filters, sortConfig, pageSize>>
            ELSE UNCHANGED <<filters, sortConfig, currentPage, pageSize,
                             filtersNew, sortConfigNew, phase>>
       /\ Called("handlePageChange") =>
            IF 1 <= ev'.arg /\ ev'.arg <= view.totalPages
            THEN /\ ev'.calls = << [fn |-> "onPageChange", arg |-> ev'.arg] >>
                 /\ currentPage' = ev'.arg
            ELSE /\ ev'.calls = <<>>
                 /\ UNCHANGED <<filters, sortConfig, currentPage, pageSize,
                                filtersNew, sortConfigNew, phase>>
      ]_vars

\* A goToPage beyond the last page was ignored on a page other than 1.
C9_Witness ==
    /\ ev.op = "goToPage"
    /\ ev.n = 1
    /\ ev.arg > view.totalPages
    /\ view.totalPages > 1
    /\ phase = "idle"
    /\ currentPage = ev.page0
    /\ currentPage > 1

\* C10: nextPage adds exactly one below the last page and is a no-op on it,
\* prevPage subtracts exactly one above page 1 and is a no-op on it, and
\* neither takes currentPage out of 1..totalPages.
C10_NextPrevStayInRange ==
    [][/\ Called("nextPage") =>
            /\ currentPage' = IF currentPage < view.totalPages
                              THEN currentPage + 1 ELSE currentPage
            /\ (currentPage \in 1..view.totalPages
                    => currentPage' \in 1..view.totalPages)
       /\ Called("prevPage") =>
            /\ currentPage' = IF currentPage > 1
                              THEN currentPage - 1 ELSE currentPage
            /\ (currentPage \in 1..view.totalPages
                    => currentPage' \in 1..view.totalPages)
      ]_vars

\* A record satisfies the filters: the trimmed, lower-cased query is empty
\* or part of its code or of its description, and its unit value lies
\* within the bounds that are present.
RowMatches(r, f) ==
    /\ LET term == Trim(ToLowerCase(f.query))
       IN  \/ term = <<>>
           \/ Includes(ToLowerCase(r.cptCode), term)
           \/ Includes(ToLowerCase(r.caseDescription), term)
    /\ f.minUnitValue # Undefined => r.unitValue >= f.minUnitValue.n
    /\ f.maxUnitValue # Undefined => r.unitValue <= f.maxUnitValue.n

\* Record a may stand before record b under the sort configuration.
InOrder(a, b, config) ==
    LET c == IF config.field \in StringFields
             THEN LocaleCompare(ToLowerCase(a[config.field]),
                                ToLowerCase(b[config.field]))
             ELSE a[config.field] - b[config.field]
    IN  IF config.direction = "asc" THEN c <= 0 ELSE c >= 0

\* C4: in every state of the page the rows given to the Results Table are
\* the slice [(currentPage-1)*pageSize, currentPage*pageSize) of the
\* records of the dataset that satisfy the current filters, ordered by the
\* current sort field and direction.
C4_RowsAreSliceOfMatches ==
    LET matching == { i \in 1..Len(cptData) :
                        RowMatches(cptData[i], view.filters) }
        start == (view.currentPage - 1) * view.pageSize
        count == Max(0, Min(Len(results), start + view.pageSize) - start)
    IN  /\ Len(results) = Cardinality(matching)
        /\ \A i \in matching :
               \E j \in 1..Len(results) : results[j] = cptData[i]
        /\ \A j, k \in 1..Len(results) :
               j < k => InOrder(results[j], results[k], view.sortConfig)
        /\ displayedResults = [i \in 1..count |-> results[start + i]]
        /\ \A i \in 1..Len(displayedResults) :
               RowMatches(displayedResults[i], view.filters)
        /\ (view.currentPage = 1 /\ results # <<>>) =>
               /\ displayedResults # <<>>
               /\ \A j \in 1..Len(results) :
                      InOrder(displayedResults[1], results[j],
                              view.sortConfig)

\* The second page of the records matching a query and a minimum, by
\* descending unit value.
C4_Witness ==
    /\ screen = "search"
    /\ phase = "idle"
    /\ Trim(view.filters.query) # <<>>
    /\ view.filters.minUnitValue # Undefined
    /\ view.sortConfig = SortConfig("unitValue", "desc")
    /\ view.currentPage = 2
    /\ Len(displayedResults) >= 1
    /\ Len(results) < Len(cptData)

\* C5: whenever the controller holds both a minimum and a maximum unit
\* value after edits of the two fields of the Filter Panel, the minimum is
\* not above the maximum.
C5_MinNotAboveMax ==
    (filters.minUnitValue # Undefined /\ filters.maxUnitValue # Undefined)
    => filters.minUnitValue.n <= filters.maxUnitValue.n

\* An edit of the minimum field fails validation: the text has no number,
\* a negative one, or one above the number entered as maximum.
MinEditFails(value, maxIn) ==
    /\ value # <<>>
    /\ \/ ParseInt(value) = NaN
       \/ ParseInt(value).n < 0
       \/ /\ maxIn # <<>>
          /\ ParseInt(maxIn) # NaN
          /\ ParseInt(value).n > ParseInt(maxIn).n

MaxEditFails(value, minIn) ==
    /\ value # <<>>
    /\ \/ ParseInt(value) = NaN
       \/ ParseInt(value).n < 0
       \/ /\ minIn # <<>>
          /\ ParseInt(minIn) # NaN
          /\ ParseInt(value).n < ParseInt(minIn).n

\* The message of a failed edit
EditMessage(value, crossMessage) ==
    IF ParseInt(value) = NaN THEN "Please enter a valid number"
    ELSE IF ParseInt(value).n < 0 THEN "Unit value must be positive"
    ELSE crossMessage

\* C6: an edit of a Filter Panel field that fails validation invokes no
\* change callback, leaves the filters of the controller alone, sets the
\* message of the failure and keeps the rejected text as the draft.
C6_RejectedEditKeepsDraft ==
    [][/\ (Called("handleMinChange") /\ MinEditFails(ev'.arg, maxInput)) =>
            /\ ev'.calls = <<>>
            /\ UNCHANGED <<filters, filtersNew, maxInput>>
            /\ minInput' = ev'.arg
            /\ error' = EditMessage(ev'.arg,
                            "Min value cannot be greater than max value")
       /\ (Called("handleMaxChange") /\ MaxEditFails(ev'.arg, minInput)) =>
            /\ ev'.calls = <<>>
            /\ UNCHANGED <<filters, filtersNew, minInput>>
            /\ maxInput' = ev'.arg
            /\ error' = EditMessage(ev'.arg,
                            "Max value cannot be less than min value")
      ]_vars

\* 5 entered as minimum, then 3 as maximum
C6_Witness ==
    /\ ev.op = "handleMaxChange"
    /\ ev.arg = <<"3">>
    /\ ev.calls = <<>>
    /\ minInput = <<"5">>
    /\ maxInput = <<"3">>
    /\ error = "Max value cannot be less than min value"
    /\ filters.minUnitValue = Num(5)
    /\ filters.maxUnitValue = Undefined

\* C7: a delivery of the Search Box to the query setter carries the draft
\* present when the delay has elapsed, never an earlier draft of the burst.
C7_OnlyFinalDraftDelivered ==
    [][Called("timer") =>
            /\ ev'.arg = inputValue
            /\ ev'.calls = << [fn |-> "onSearch", arg |-> inputValue] >>
            /\ filters'.query = inputValue
      ]_vars

\* A delivery that ends a burst of several draft changes
C7_Witness ==
    /\ ev.op = "timer"
    /\ ev.burst0 >= 2
    /\ ev.arg = inputValue
    /\ inputValue # <<>>
    /\ filters.query = inputValue

\* C8: at most one debounce timer of the Search Box is live.
C8_AtMostOneTimer == Cardinality(timers) <= 1

\* The timer of the second draft change of a burst runs alone.
C8_Witness ==
    /\ phase = "idle"
    /\ burst >= 2
    /\ Cardinality(timers) = 1
    /\ \A t \in timers : t.value = inputValue /\ t.id = timeoutId

\* C11: setPageSize(size) stores size as pageSize and 1 as currentPage, from
\* any state of the controller, and leaves the filters and the sort
\* configuration as they were; the render and the reactive rules that
\* follow keep all four.
C11_SetPageSizeResetsPage ==
    [][ev'.op = "setPageSize" =>
            /\ pageSize' = ev'.arg
            /\ currentPage' = 1
            /\ UNCHANGED <<filters, sortConfig>>
      ]_vars

\* A page size chosen on a later page of filtered, re-sorted results
C11_Witness ==
    /\ Settled
    /\ ev.op = "setPageSize"
    /\ ev.page0 > 1
    /\ currentPage = 1
    /\ pageSize = ev.arg
    /\ pageSize # initialPageSize
    /\ filters # InitialFilters
    /\ sortConfig # InitialSortConfig

\* C12: after toggleSort(f) the sort field is f; the direction is
\* descending exactly when f was the sort field with the ascending
\* direction before the call, and ascending in every other case.
C12_ToggleSortDirection ==
    [][Called("toggleSort") =>
            /\ sortConfig'.field = ev'.arg
            /\ sortConfig'.direction = "desc" <=>
                    (sortConfig.field = ev'.arg
                        /\ sortConfig.direction = "asc")
            /\ sortConfig'.direction \in {"asc", "desc"}
      ]_vars

\* A second toggle of a column other than the initial one
C12_Witness ==
    /\ Settled
    /\ ev.op = "toggleSort"
    /\ ev.arg = "unitValue"
    /\ sortConfig = SortConfig("unitValue", "desc")

\* C13: setQuery, setMinUnitValue and setMaxUnitValue each store their
\* argument in their own field of the filters and leave the two other
\* fields, the sort configuration and the page size alone; clearFilters
\* stores the empty query and no bounds, and leaves the sort configuration
\* and the page size alone.
C13_FilterSettersFrame ==
    [][/\ Called("setQuery") =>
            /\ filters'.query = ev'.arg
            /\ filters'.minUnitValue = filters.minUnitValue
            /\ filters'.maxUnitValue = filters.maxUnitValue
            /\ UNCHANGED <<sortConfig, pageSize>>
       /\ Called("setMinUnitValue") =>
            /\ filters'.minUnitValue = ev'.arg
            /\ filters'.query = filters.query
            /\ filters'.maxUnitValue = filters.maxUnitValue
            /\ UNCHANGED <<sortConfig, pageSize>>
       /\ Called("setMaxUnitValue") =>
            /\ filters'.maxUnitValue = ev'.arg
            /\ filters'.query = filters.query
            /\ filters'.minUnitValue = filters.minUnitValue
            /\ UNCHANGED <<sortConfig, pageSize>>
       /\ Called("clearFilters") =>
            /\ filters'.query = <<>>
            /\ filters'.minUnitValue = Undefined
            /\ filters'.maxUnitValue = Undefined
            /\ UNCHANGED <<sortConfig, pageSize>>
      ]_vars

\* A minimum stored next to a query and a maximum, under a sort
\* configuration and a page size other than the initial ones
C13_Witness ==
    /\ Settled
    /\ ev.op = "setMinUnitValue"
    /\ filters.minUnitValue = ev.arg
    /\ filters.minUnitValue # Undefined
    /\ filters.query # <<>>
    /\ filters.maxUnitValue # Undefined
    /\ sortConfig # InitialSortConfig
    /\ pageSize # initialPageSize

\* C14: a submit of the Login Gate with a value other than the configured
\* passphrase writes nothing to session storage, whose flag stays unset,
\* does not invoke the success callback, shows "Incorrect password. Please
\* try again." and empties the input, however many submits failed before.
C14_FailedLoginLeavesNoFlag ==
    [][(Called("handleSubmit") /\ password # correctPassword) =>
            /\ sessionStorage' = "null"
            /\ sessionStorage = "null"
            /\ ev'.calls = <<>>
            /\ ~isAuthenticated'
            /\ loginError' = "Incorrect password. Please try again."
            /\ password' = <<>>
      ]_vars

\* A failed submit that follows a failed submit: the passphrase in lower
\* case while the message of the previous failure is shown
C14_Witness ==
    /\ ev.op = "handleSubmit"
    /\ ev.arg = ToLowerCase(correctPassword)
    /\ ev.error0 = "Incorrect password. Please try again."
    /\ ev.calls = <<>>
    /\ loginError = "Incorrect password. Please try again."
    /\ password = <<>>
    /\ sessionStorage = "null"
    /\ ~isAuthenticated

\* C15: a submit of the Login Gate with exactly the configured passphrase
\* writes "true" under the session-storage key isAuthenticated and invokes
\* the success callback once.
C15_SuccessfulLoginSetsFlag ==
    [][(Called("handleSubmit") /\ password = correctPassword) =>
            /\ sessionStorage = "null"
            /\ sessionStorage' = "true"
            /\ ev'.calls = << [fn |-> "onLogin", arg |-> <<>>] >>
            /\ ~isAuthenticated
            /\ isAuthenticated'
      ]_vars

\* The passphrase submitted after a failed attempt
C15_Witness ==
    /\ ev.op = "handleSubmit"
    /\ ev.arg = correctPassword
    /\ ev.error0 = "Incorrect password. Please try again."
    /\ Len(ev.calls) = 1
    /\ sessionStorage = "true"
    /\ isAuthenticated
    /\ screen = "login"

\* C16: the Shell shows exactly one of its three views: the search
\* experience only when the session check has completed and the local
\* authenticated state is true, the loading indicator alone while the check
\* is pending, and the Login Gate alone when the check has completed and
\* the state is false.  (Between a state update and the render it schedules
\* the view on screen is that of the state before the update.)  The
\* components of a view that is not shown hold no state.
C16_ViewsExclusive ==
    /\ screen \in {"loading", "login", "search"}
    /\ phase # "update" =>
          /\ screen = "search" <=> (~isLoading /\ isAuthenticated)
          /\ screen = "loading" <=> isLoading
          /\ screen = "login" <=> (~isLoading /\ ~isAuthenticated)
    /\ screen # "search" =>
          /\ inputValue = <<>>
          /\ minInput = <<>>
          /\ maxInput = <<>>
          /\ error = NoError
    /\ screen # "login" => (password = <<>> /\ loginError = "")
    /\ (screen # "search" /\ phase = "idle") => timers = {}

\* The Login Gate rendered in place of the search experience after a logout
C16_Witness ==
    /\ screen = "login"
    /\ phase = "commit"
    /\ ev.op = "logout"
    /\ ~isAuthenticated
    /\ ~isLoading

\* C17: once the mount-time check has completed, the local authenticated
\* state of the Shell is true exactly when session storage holds "true"
\* under isAuthenticated; the flag is written only by a submit of the
\* configured passphrase and removed only by a logout, and a logout removes
\* the flag, makes the state false and brings back the Login Gate.
C17_FlagMatchesAuthState ==
    [][/\ ~isLoading' => (isAuthenticated' <=> sessionStorage' = "true")
       /\ (sessionStorage # "true" /\ sessionStorage' = "true") =>
            (ev'.op = "handleSubmit" /\ ev'.arg = correctPassword)
       /\ (sessionStorage = "true" /\ sessionStorage' # "true") =>
            ev'.op = "logout"
       /\ Called("logout") =>
            (sessionStorage' = "null" /\ ~isAuthenticated')
       /\ (ev.op = "logout" /\ phase = "update") => screen' = "login"
      ]_vars

\* A logout has removed the flag and the Shell is about to render.
C17_Witness ==
    /\ ev.op = "logout"
    /\ phase = "update"
    /\ screen = "search"
    /\ sessionStorage = "null"
    /\ ~isAuthenticated
    /\ ~isLoading

\* C18: for totalPages >= 1 and currentPage in 1..totalPages the page-number
\* sequence is 1..totalPages when totalPages <= 7, and otherwise 1, an
\* ellipsis iff max(2, currentPage-1) > 2, the pages max(2, currentPage-1)
\* to min(totalPages-1, currentPage+1), an ellipsis iff that upper page is
\* below totalPages-1, and totalPages.  It has at most 7 entries, its
\* numbers increase strictly, and 1, currentPage and totalPages are in it.
C18_PageWindow ==
    lib.fn = "getPageNumbers" =>
        LET page == lib.args[1]
            total == lib.args[2]
            seq == lib.ret
            numbers == SelectSeq(seq, LAMBDA x : x.kind = "number")
            first == IF page - 1 > 2 THEN page - 1 ELSE 2
            last == IF page + 1 < total - 1 THEN page + 1 ELSE total - 1
            dots == << [kind |-> "string", n |-> 0] >>
        IN  /\ seq = IF total <= 7
                     THEN [i \in 1..total |-> Num(i)]
                     ELSE <<Num(1)>>
                          \o (IF first > 2 THEN dots ELSE <<>>)
                          \o [i \in 1..(last - first + 1) |->
                                 Num(first + i - 1)]
                          \o (IF last < total - 1 THEN dots ELSE <<>>)
                          \o <<Num(total)>>
            /\ Len(seq) <= 7
            /\ \A i \in 1..(Len(numbers) - 1) :
                   numbers[i].n < numbers[i + 1].n
            /\ \A n \in {1, page, total} :
                   \E i \in 1..Len(seq) : seq[i] = Num(n)
            /\ (total = 20 /\ page = 10) =>
                   seq = <<Num(1), dots[1], Num(9), Num(10), Num(11),
                           dots[1], Num(20)>>

\* Page 10 of 20
C18_Witness ==
    /\ lib.fn = "getPageNumbers"
    /\ lib.args = <<10, 20>>
    /\ Len(lib.ret) = 7
    /\ lib.ret[2] = Ellipsis
    /\ lib.ret[4] = Num(10)
    /\ lib.ret[6] = Ellipsis

\* The functions that take an array of records, and the results memo
ArrayFunctions ==
    {"searchCptCodes", "filterByUnitValue", "applyFilters", "sortCptCodes",
     "paginateResults", "results"}

\* The array a function returns, read from the heap it leaves
ReturnedArray(outcome) == outcome.heap[outcome.ref]

\* What each library call returned is the array its heap form evaluates to.
LibReturnsHeapArray ==
    /\ lib.fn = "searchCptCodes" =>
           lib.ret = ReturnedArray(searchCptCodesOnHeap(
                         <<lib.args[1]>>, 1, lib.args[2]))
    /\ lib.fn = "filterByUnitValue" =>
           lib.ret = ReturnedArray(filterByUnitValueOnHeap(
                         <<lib.args[1]>>, 1, lib.args[2], lib.args[3]))
    /\ lib.fn = "applyFilters" =>
           lib.ret = ReturnedArray(applyFiltersOnHeap(
                         <<lib.args[1]>>, 1, lib.args[2]))
    /\ lib.fn = "sortCptCodes" =>
           lib.ret = ReturnedArray(sortCptCodesOnHeap(
                         <<lib.args[1]>>, 1, lib.args[2]))
    /\ lib.fn = "paginateResults" =>
           lib.ret = ReturnedArray(paginateResultsOnHeap(
                         <<lib.args[1]>>, 1, lib.args[2], lib.args[3]))
    /\ lib.fn = "results" =>
           lib.ret = ReturnedArray(ResultsMemoOnHeap(
                         <<lib.args[1]>>, 1, lib.args[2], lib.args[3]))

\* C19: the dataset and the arrays given to the library are never modified:
\* after any sequence of controller operations the array of the dataset
\* holds the records it held at load, in the same order, and after a call
\* of sortCptCodes, applyFilters, searchCptCodes, filterByUnitValue or
\* paginateResults, or a run of the results memo, the caller finds its
\* array argument as it passed it.
C19_InputsNotModified ==
    /\ dataset = cptData
    /\ lib.fn \in ArrayFunctions => lib.input = lib.args[1]

\* The controller has sorted every record of the dataset into another order
\* than that of the dataset, which is as it was at load.
C19_Witness ==
    /\ Settled
    /\ ev.op \in SortOps
    /\ Len(results) = Len(cptData)
    /\ results # cptData
    /\ dataset = cptData

\* The query, trimmed and lower-cased, is part of the code or of the
\* description of the record, both lower-cased.
QueryMatches(r, q) ==
    LET term == Trim(ToLowerCase(q))
    IN  \/ Includes(ToLowerCase(r.cptCode), term)
        \/ Includes(ToLowerCase(r.caseDescription), term)

\* C20: searchCptCodes(data, q) holds exactly the records of data of which
\* the trimmed, lower-cased q is a substring of the lower-cased code or
\* description, in the order of data; for an empty or all-whitespace q it
\* is data.
C20_SearchMatchesSubstring ==
    lib.fn = "searchCptCodes" =>
        LET data == lib.args[1]
            q == lib.args[2]
        IN  /\ lib.ret = SelectSeq(data, LAMBDA r : QueryMatches(r, q))
            /\ (\A i \in 1..Len(q) : q[i] = " ") => lib.ret = data

\* A query with white space around it and in another case than the text it
\* matches, which keeps some records and drops others
C20_Witness ==
    /\ lib.fn = "searchCptCodes"
    /\ lib.args[2] = <<" ", "G", "Y">>
    /\ Len(lib.args[1]) = MaxArrayLen
    /\ Len(lib.ret) = 2
    /\ lib.ret[1] # lib.ret[2]

\* The unit value of the record lies within the bounds that are present.
WithinBounds(r, lo, hi) ==
    /\ lo = Undefined \/ r.unitValue >= lo.n
    /\ hi = Undefined \/ r.unitValue <= hi.n

\* C21: filterByUnitValue(data, min, max) holds, in the order of data,
\* exactly the records r with (min absent or r.unitValue >= min) and (max
\* absent or r.unitValue <= max), a bound of 0 being a bound; with both
\* bounds absent it is data, and with min > max it is empty.
C21_FilterWithinBounds ==
    lib.fn = "filterByUnitValue" =>
        LET data == lib.args[1]
            lo == lib.args[2]
            hi == lib.args[3]
        IN  /\ lib.ret = SelectSeq(data, LAMBDA r : WithinBounds(r, lo, hi))
            /\ (lo = Undefined /\ hi = Undefined) => lib.ret = data
            /\ (lo # Undefined /\ hi # Undefined /\ lo.n > hi.n)
                    => lib.ret = <<>>
            /\ (hi = Num(0) /\ \A i \in 1..Len(data) : data[i].unitValue > 0)
                    => lib.ret = <<>>

\* A maximum of 0 over records of positive unit value: nothing is kept
C21_Witness ==
    /\ lib.fn = "filterByUnitValue"
    /\ Len(lib.args[1]) = MaxArrayLen
    /\ lib.args[2] = Undefined
    /\ lib.args[3] = Num(0)
    /\ lib.ret = <<>>

Reverse(s) == [i \in 1..Len(s) |-> s[Len(s) + 1 - i]]
OtherDirection(config) ==
    SortConfig(config.field, IF config.direction = "asc" THEN "desc" ELSE "asc")
\* No two elements of data have the same value of field f.
DistinctValues(data, f) ==
    \A i, j \in 1..Len(data) : i # j => data[i][f] # data[j][f]
\* The value the comparator looks at: text is compared in lower case.
SortKey(r, f) == IF f \in StringFields THEN ToLowerCase(r[f]) ELSE r[f]
\* No two elements of data have the same value of field f under the
\* comparison.
DistinctKeys(data, f) ==
    \A i, j \in 1..Len(data) : i # j => SortKey(data[i], f) # SortKey(data[j], f)
\* sorted holds the elements of data, each once, in the order of config.
SortedPermutation(sorted, data, config) ==
    /\ Len(sorted) = Len(data)
    /\ { sorted[i] : i \in 1..Len(sorted) } = { data[i] : i \in 1..Len(data) }
    /\ \A i, j \in 1..Len(sorted) :
           i < j => InOrder(sorted[i], sorted[j], config)
\* The result of the call is the reverse of the sort in the other
\* direction, and both are permutations of the input in the order of the
\* field.
SortReverses ==
    LET data == lib.args[1]
        config == lib.args[2]
        other == sortCptCodes(data, OtherDirection(config))
    IN  /\ lib.ret = Reverse(other)
        /\ SortedPermutation(lib.ret, data, config)
        /\ SortedPermutation(other, data, OtherDirection(config))

\* C22 as stated: for an array whose values of field f are pairwise
\* distinct, sortCptCodes descending on f is the exact reverse of
\* sortCptCodes ascending on f, and each is a permutation of the array
\* ordered by f.
C22_ReverseWhenDistinct ==
    (lib.fn = "sortCptCodes" /\ DistinctValues(lib.args[1], lib.args[2].field))
        => SortReverses

\* C22 amended: the same for an array whose values of field f are pairwise
\* distinct under the comparison, that is, for a text field, distinct when
\* case is ignored.
C22_ReverseWhenDistinctKeys ==
    (lib.fn = "sortCptCodes" /\ DistinctKeys(lib.args[1], lib.args[2].field))
        => SortReverses

\* A descending sort on the code of a full-length array of distinct codes in
\* mixed case, which changes the order
C22_Witness ==
    /\ lib.fn = "sortCptCodes"
    /\ lib.args[2] = SortConfig("cptCode", "desc")
    /\ Len(lib.args[1]) = MaxArrayLen
    /\ DistinctKeys(lib.args[1], "cptCode")
    /\ \E i \in 1..Len(lib.args[1]) : lib.args[1][i] = CaseVariant
    /\ lib.ret # lib.args[1]
    /\ lib.ret = Reverse(sortCptCodes(lib.args[1], SortConfig("cptCode", "asc")))

\* Pages 1..k of data, one after the other
RECURSIVE PagesUpTo(_, _, _)
PagesUpTo(data, k, size) ==
    IF k = 0 THEN <<>>
    ELSE PagesUpTo(data, k - 1, size) \o paginateResults(data, k, size)

\* C23: for page >= 1 and pageSize >= 1, paginateResults(data, page,
\* pageSize) holds the items at zero-based indices (page-1)*pageSize up to
\* but excluding min(page*pageSize, length), in order; for a page past the
\* end it is empty; and pages 1..calculateTotalPages(length, pageSize) one
\* after the other give data.
C23_PageIsIndexRange ==
    (lib.fn = "paginateResults" /\ lib.args[2] >= 1 /\ lib.args[3] >= 1) =>
        LET data == lib.args[1]
            page == lib.args[2]
            size == lib.args[3]
            from == (page - 1) * size
            to == Min(page * size, Len(data))
        IN  /\ Len(lib.ret) = Max(to - from, 0)
            /\ \A i \in 1..Len(lib.ret) : lib.ret[i] = data[from + i]
            /\ from >= Len(data) => lib.ret = <<>>
            /\ PagesUpTo(data, calculateTotalPages(Len(data), size), size)
                    = data

\* The last page of a full-length array, cut short by the end of the array
C23_Witness ==
    /\ lib.fn = "paginateResults"
    /\ Len(lib.args[1]) = MaxArrayLen
    /\ lib.args[3] = initialPageSize
    /\ lib.args[2] = calculateTotalPages(MaxArrayLen, initialPageSize)
    /\ Len(lib.ret) \in 1..(initialPageSize - 1)
    /\ lib.ret[Len(lib.ret)] = lib.args[1][MaxArrayLen]

\* The least n with n * size >= items
LeastPages(items, size) ==
    CHOOSE n \in 0..items :
        /\ n * size >= items
        /\ \A m \in 0..(n - 1) : m * size < items

\* C24: for totalItems >= 0 and pageSize >= 1, calculateTotalPages is the
\* least n with n * pageSize >= totalItems (0 for 0 items, 1 for 25 items at
\* size 25, 78 for 1949 items at size 25), and the totalPages of the
\* controller is calculateTotalPages of the number of records that satisfy
\* its filters and of its page size.
C24_TotalPagesIsCeiling ==
    /\ \A items \in 0..(2 * NumRecords), size \in 1..(initialPageSize + 1) :
           calculateTotalPages(items, size) = LeastPages(items, size)
    /\ calculateTotalPages(0, 25) = 0
    /\ calculateTotalPages(25, 25) = 1
    /\ calculateTotalPages(1949, 25) = 78
    /\ view.totalResults = Len(applyFilters(cptData, view.filters))
    /\ view.totalPages =
           calculateTotalPages(Len(applyFilters(cptData, view.filters)),
                               view.pageSize)
    /\ view.totalPages = LeastPages(view.totalResults, view.pageSize)

\* Filters that keep some records and another page size than the initial
\* one, the last page not full
C24_Witness ==
    /\ view.filters # InitialFilters
    /\ view.pageSize # initialPageSize
    /\ view.totalResults < Len(cptData)
    /\ view.totalResults % view.pageSize # 0
    /\ view.totalPages = 2

\* The last thing the user did changed pagination state alone, at a moment
\* when the Search Box had no text the controller had not yet received.
PaginationLast == user.op \in {"goToPage", "setPageSize"} /\ user.synced

\* Home renders and the results memo runs again.
Recomputes == phase = "update" /\ phase' = "commit" /\ ResultsDepsChanged

\* C25: the result set is recomputed only when the dataset, the filters or
\* the sort configuration change: after an operation that changes
\* pagination state alone (a page click, a choice of page size) no render
\* recomputes it, neither the render that follows the operation nor a
\* later one, until the user does something else.
C25_NoRecomputeAfterPagination ==
    [][~(Recomputes /\ PaginationLast)]_vars

\* C26: toggleSort called with a name that is no attribute of the Code
\* Record is ignored: the call stores no sort configuration, so that the
\* sort configuration, the current page and the order of the result set
\* stay as they were and no reactive rule is set off.
C26_UnknownSortFieldIgnored ==
    [][(Called("toggleSort") /\ ev'.arg \notin CptCodeFields) =>
            UNCHANGED <<sortConfig, sortConfigNew, currentPage, results>>
      ]_vars

\* This step is a handler the user set off, not a timer, a render or an
\* effect.
UserActs == ev.n = 0 /\ ev'.n = 1 /\ ev'.op # "timer"

\* No debounce timer is pending and nothing is scheduled: no query
\* notification, filter update, recomputation or page change can follow
\* but from a user action.
Quiescent == timers = {} /\ phase = "idle"

\* C27: once the user stops interacting, the page becomes quiescent:
\* eventually no debounce timer is pending and nothing further happens
\* until the next user action.
C27_QuiescentOnceUserStops ==
    <>[][~UserActs]_(ev.n) => <>[]Quiescent

\* C28: after goToPage(p) with 1 <= p <= totalPages has been accepted,
\* currentPage is p until the user next changes the page, the page size,
\* the search text, a range filter or the sort: as long as the accepted
\* page click is the last thing the user did, and the Search Box held no
\* text still to be delivered when it was made, no timer and no reactive
\* rule moves the page.
C28_PageStaysAfterGoToPage ==
    (user.op = "goToPage" /\ user.synced) => currentPage = user.page

\* The bound a draft of the Filter Panel displays: none for the empty
\* draft, else the integer parsed from it.
DraftBound(draft) == IF draft = <<>> THEN Undefined ELSE ParseInt(draft)

\* C29: whenever the Filter Panel shows no validation error, the bounds of
\* the controller are those the panel displays: minUnitValue is absent if
\* the minimum draft is empty and else the integer parsed from it, and
\* likewise maxUnitValue and the maximum draft.
C29_PanelAgreesWithController ==
    error = NoError =>
        /\ filters.minUnitValue = DraftBound(minInput)
        /\ filters.maxUnitValue = DraftBound(maxInput)

\* The Search Box is on the page and no debounce timer is pending: none is
\* live and no run of the debounce effect is waiting to start one.
NoTimerPending ==
    screen = "search" /\ timers = {} /\ "debounce" \notin fx

\* C30: whenever no debounce timer of the Search Box is pending, the query
\* of the controller is the draft of the Search Box; so it is after "Clear
\* filters" has reset the query to the empty string while the Search Box
\* still shows text.
C30_QueryIsDraftWhenNoTimer ==
    NoTimerPending => filters.query = inputValue

\* "Clear filters" was the last thing the user did, the page was rendered
\* with the empty query while the Search Box showed text, and the timer has
\* fired since.
C30_Witness ==
    /\ NoTimerPending
    /\ user.op = "clearFilters"
    /\ ev.op = "timer"
    /\ view.filters.query = <<>>
    /\ inputValue # <<>>
    /\ filters.query = inputValue

\* C31: whenever the Pagination Control is rendered (the search screen
\* with a total result count above 0), its item range, start =
\* (currentPage-1)*pageSize + 1 and end = min(currentPage*pageSize,
\* totalItems), satisfies 1 <= start <= end <= totalItems, and
\* end - start + 1 is the number of rows the Results Table shows.
C31_ItemRangeMatchesRows ==
    (screen = "search" /\ view.totalResults > 0) =>
        LET range == getItemRange(view.currentPage, view.pageSize,
                                  view.totalResults)
        IN  /\ 1 <= range.start
            /\ range.start <= range.end
            /\ range.end <= view.totalResults
            /\ range.end - range.start + 1 = Len(displayedResults)


=============================================================================
